---- MODULE Spec2Model ----
(***************************************************************************)
(* SentimentIQ Pro: the tier policy (utils/tierUtils.ts) and the           *)
(* comprehensive-analysis path: TextAnalyzer.handleAnalyze ->              *)
(* sentimentService.analyzeTextComprehensive -> POST /api/analyze-text     *)
(* (server/index.js) -> one provider call per feature -> aggregation.      *)
(***************************************************************************)
EXTENDS Integers, Sequences, FiniteSets, TLC

(***************************************************************************)
(* Tier policy: src/unnamed/part_012 (utils/tierUtils.ts)                  *)
(***************************************************************************)

\* the five feature identifiers, in the order the code lists them
AllFeatures == <<"sentiment", "keyPhrases", "entities", "summary", "language">>

FeatureSet == {AllFeatures[i] : i \in 1..Len(AllFeatures)}

\* tier values outside the three tiers (the switch compares with ===)
UnknownTiers == {"invalid", "Guest", "admin"}

TierValues == {"guest", "standard", "pro"} \cup UnknownTiers

\* feature values outside the five features
UnknownFeatures == {"translation", "Sentiment"}

FeatureValues == FeatureSet \cup UnknownFeatures

\* Array.prototype.includes
Includes(arr, x) == \E i \in 1..Len(arr) : arr[i] = x

RECURSIVE getTierLimits(_)

\* mutants of getTierLimits
getTierLimits_stdMax(tier) ==
    CASE tier = "guest" ->
           [maxFeatures |-> 1, allowedFeatures |-> <<"sentiment">>,
            hasHistory |-> FALSE, requiresAuth |-> FALSE]
      [] tier = "standard" ->
           [maxFeatures |-> 3, allowedFeatures |-> <<"sentiment", "keyPhrases">>,
            hasHistory |-> TRUE, requiresAuth |-> TRUE]
      [] tier = "pro" ->
           [maxFeatures |-> 5,
            allowedFeatures |-> <<"sentiment", "keyPhrases", "entities", "summary", "language">>,
            hasHistory |-> TRUE, requiresAuth |-> TRUE]
      [] OTHER -> [maxFeatures |-> 1, allowedFeatures |-> <<"sentiment">>,
                   hasHistory |-> FALSE, requiresAuth |-> FALSE]

getTierLimits_defaultStd(tier) ==
    CASE tier = "guest" ->
           [maxFeatures |-> 1, allowedFeatures |-> <<"sentiment">>,
            hasHistory |-> FALSE, requiresAuth |-> FALSE]
      [] tier = "standard" ->
           [maxFeatures |-> 2, allowedFeatures |-> <<"sentiment", "keyPhrases">>,
            hasHistory |-> TRUE, requiresAuth |-> TRUE]
      [] tier = "pro" ->
           [maxFeatures |-> 5,
            allowedFeatures |-> <<"sentiment", "keyPhrases", "entities", "summary", "language">>,
            hasHistory |-> TRUE, requiresAuth |-> TRUE]
      [] OTHER -> [maxFeatures |-> 2, allowedFeatures |-> <<"sentiment", "keyPhrases">>,
                   hasHistory |-> TRUE, requiresAuth |-> TRUE]

getTierLimits_stdNoSentiment(tier) ==
    CASE tier = "guest" ->
           [maxFeatures |-> 1, allowedFeatures |-> <<"sentiment">>,
            hasHistory |-> FALSE, requiresAuth |-> FALSE]
      [] tier = "standard" ->
           [maxFeatures |-> 2, allowedFeatures |-> <<"keyPhrases", "entities">>,
            hasHistory |-> TRUE, requiresAuth |-> TRUE]
      [] tier = "pro" ->
           [maxFeatures |-> 5,
            allowedFeatures |-> <<"sentiment", "keyPhrases", "entities", "summary", "language">>,
            hasHistory |-> TRUE, requiresAuth |-> TRUE]
      [] OTHER -> [maxFeatures |-> 1, allowedFeatures |-> <<"sentiment">>,
                   hasHistory |-> FALSE, requiresAuth |-> FALSE]

getTierLimits(tier) ==
    CASE tier = "guest" ->
           [maxFeatures |-> 1, allowedFeatures |-> <<"sentiment">>,
            hasHistory |-> FALSE, requiresAuth |-> FALSE]
      [] tier = "standard" ->
           [maxFeatures |-> 2, allowedFeatures |-> <<"sentiment", "keyPhrases">>,
            hasHistory |-> TRUE, requiresAuth |-> TRUE]
      [] tier = "pro" ->
           [maxFeatures |-> 5,
            allowedFeatures |-> <<"sentiment", "keyPhrases", "entities", "summary", "language">>,
            hasHistory |-> TRUE, requiresAuth |-> TRUE]
      [] OTHER -> getTierLimits("guest")

\* mutant of canAccessFeature: looks the feature up in the pro list
canAccessFeature_proList(tier, feature) ==
    Includes(getTierLimits("pro").allowedFeatures, feature)

canAccessFeature(tier, feature) ==
    LET limits == getTierLimits(tier)
    IN  Includes(limits.allowedFeatures, feature)

getTierDisplayName(tier) ==
    CASE tier = "guest" -> "Guest"
      [] tier = "standard" -> "Standard"
      [] tier = "pro" -> "Pro"
      [] OTHER -> "Guest"

getTierColor(tier) ==
    CASE tier = "guest" -> "text-gray-600 bg-gray-100"
      [] tier = "standard" -> "text-blue-600 bg-blue-100"
      [] tier = "pro" -> "text-purple-600 bg-purple-100"
      [] OTHER -> "text-gray-600 bg-gray-100"

(***************************************************************************)
(* Text.  A string is a sequence of runs; a run is n >= 1 copies of a      *)
(* whitespace character (ws) or of a non-whitespace character.             *)
(***************************************************************************)

Ws(n) == [ws |-> TRUE, n |-> n]

Ch(n) == [ws |-> FALSE, n |-> n]

\* String.prototype.length
RECURSIVE StrLength(_)
StrLength(s) == IF s = <<>> THEN 0 ELSE Head(s).n + StrLength(Tail(s))

RECURSIVE TrimStart(_)
TrimStart(s) ==
    IF s = <<>> THEN <<>>
    ELSE IF Head(s).ws THEN TrimStart(Tail(s)) ELSE s

RECURSIVE TrimEnd(_)
TrimEnd(s) ==
    IF s = <<>> THEN <<>>
    ELSE IF s[Len(s)].ws THEN TrimEnd(SubSeq(s, 1, Len(s) - 1)) ELSE s

\* String.prototype.trim
Trim(s) == TrimEnd(TrimStart(s))

\* s.split(/\s+/).length: the separators are the maximal whitespace
\* stretches; n separators give n + 1 pieces, the empty string gives [""]
RECURSIVE SeparatorCount(_, _)
SeparatorCount(s, inWs) ==
    IF s = <<>> THEN 0
    ELSE IF Head(s).ws
         THEN (IF inWs THEN 0 ELSE 1) + SeparatorCount(Tail(s), TRUE)
         ELSE SeparatorCount(Tail(s), FALSE)

SplitLength(s) == SeparatorCount(s, FALSE) + 1

\* mutant of WordCount: the split is taken of the untrimmed text
WordCount_noTrim(text) == SplitLength(text)

\* text.trim().split(/\s+/).length
WordCount(text) == SplitLength(Trim(text))

(***************************************************************************)
(* Program constants and the inputs of the model                           *)
(***************************************************************************)

\* server/index.js:316, length ceiling of POST /api/analyze-text
ServerMaxLength == 5120

\* TextAnalyzer.tsx:28, length ceiling of handleAnalyze
ClientMaxLength == 10000

\* server/index.js:372, the summary call needs more characters than this
SummaryMinLength == 200

\* longest whitespace padding put before and after an input text
MaxPad == 1

\* most one-character words appended to an input text
MaxExtraWords == 1

\* lengths of the first word of an input text: the boundaries of the checks
WordLens ==
    {1, SummaryMinLength, SummaryMinLength + 1, ServerMaxLength,
     ServerMaxLength + 1, ClientMaxLength, ClientMaxLength + 1}

\* lengths of the whitespace-only input texts
BlankLens == {1, ServerMaxLength + 1}

Pad(p) == IF p = 0 THEN <<>> ELSE <<Ws(p)>>

RECURSIVE ExtraWords(_)
ExtraWords(k) == IF k = 0 THEN <<>> ELSE <<Ws(1), Ch(1)>> \o ExtraWords(k - 1)

MkText(p, n, k) == Pad(p) \o <<Ch(n)>> \o ExtraWords(k) \o Pad(p)

Texts ==
    {<<>>}
    \cup {<<Ws(n)>> : n \in BlankLens}
    \cup {MkText(p, n, k) : p \in 0..MaxPad, n \in WordLens, k \in 0..MaxExtraWords}

\* a feature list that keeps the features of fs in the order of AllFeatures
RECURSIVE Sublist(_, _)
Sublist(fs, i) ==
    IF i > Len(AllFeatures) THEN <<>>
    ELSE (IF AllFeatures[i] \in fs THEN <<AllFeatures[i]>> ELSE <<>>) \o Sublist(fs, i + 1)

\* the feature lists a caller sends
FeatureLists == {Sublist(fs, 1) : fs \in SUBSET FeatureSet}

\* messages of the errors a provider call throws
FailureMessages == {"Azure API error (401)", "fetch failed"}

Undefined == "<undefined>"

NullUser == "<null>"

\* JavaScript truthiness of a string-or-undefined value
Truthy(v) == v # Undefined /\ v # ""

(***************************************************************************)
(* State                                                                   *)
(***************************************************************************)

VARIABLES
    azureConfigured,   \* server/index.js:16, set once at start-up
    user,              \* AuthContext state.user: NullUser or the user's tier
    via,               \* how the request entered: "none", "client", "http"
    uiText,            \* TextAnalyzer state: text
    selectedFeatures,  \* TextAnalyzer prop: selectedFeatures
    client,            \* TextAnalyzer state: loading, result, error
    req,               \* req.body of POST /api/analyze-text
    srv,               \* where the request handler is
    results,           \* handler local: results
    pending,           \* analysisPromises that have not settled
    analysisResults,   \* what the settled analysisPromises resolved to
    providerLog,       \* the provider's side: what each call came to
    providerCalls,     \* the provider's side: calls received per feature
    response,          \* the HTTP response sent
    endpoint,          \* the route of the request in flight
    session,           \* whether the Supabase client holds a signed-in session
    svc,               \* where the client service call is, and what it came to
    history,           \* rows the call has added to analysis_history
    showUpgrade,       \* FeatureSelector state: showUpgrade
    conc,              \* the locals of two POST /api/analyze-text handlers in flight
    logs,              \* AdminService: this.logs, entries named by their ids
    logCount,          \* how many times logEvent has been called
    logWrites,         \* inserts into system_logs that have not settled
    qTier, qFeature,   \* arguments of a direct tier-policy call
    qDone,             \* which tier-policy functions have been called
    qLimits, qAccess, qName, qColor   \* what they returned

vars ==
    <<azureConfigured, user, via, uiText, selectedFeatures, client, req, srv,
      results, pending, analysisResults, providerLog, providerCalls, response,
      endpoint, session, svc, history,
      showUpgrade, conc, logs, logCount, logWrites,
      qTier, qFeature, qDone, qLimits, qAccess, qName, qColor>>

reqVars ==
    <<azureConfigured, user, via, uiText, selectedFeatures, client, req, srv,
      results, pending, analysisResults, providerLog, providerCalls, response,
      endpoint, session, svc, history>>

tierVars == <<qTier, qFeature, qDone, qLimits, qAccess, qName, qColor>>

auxVars == <<showUpgrade, conc, logs, logCount, logWrites>>

NoLimits ==
    [maxFeatures |-> 0, allowedFeatures |-> <<>>, hasHistory |-> FALSE,
     requiresAuth |-> FALSE]

NoBody ==
    [text |-> <<>>, wordCount |-> 0, characterCount |-> 0, features |-> <<>>]

NoResponse == [status |-> 0, error |-> "", message |-> "", body |-> NoBody]

\* the features field of a request body: absent, an array, or a value that
\* is no array (null, a number)
NoFeatures == [present |-> FALSE, isArray |-> FALSE, list |-> <<>>]

FeatureArray(fs) == [present |-> TRUE, isArray |-> TRUE, list |-> fs]

NotAnArray == [present |-> TRUE, isArray |-> FALSE, list |-> <<>>]

NoReq ==
    [text |-> [isString |-> FALSE, str |-> <<>>],
     features |-> NoFeatures]

NoClient == [loading |-> FALSE, hasResult |-> FALSE, result |-> NoBody,
             errorType |-> "", errorMessage |-> ""]

NoCalls == [f \in FeatureSet |-> 0]

\* the client service call: at is its position, features the argument it was
\* given, getUser and insert what the two Supabase calls came to, result
\* and message what it returned or threw
NoSvc ==
    [at |-> "none", features |-> [present |-> FALSE, list |-> <<>>],
     getUser |-> "none", insert |-> "none", result |-> NoBody, message |-> ""]

IdleRequest ==
    /\ via = "none"
    /\ uiText = <<>>
    /\ selectedFeatures = <<>>
    /\ client = NoClient
    /\ req = NoReq
    /\ srv = "Idle"
    /\ results = NoBody
    /\ pending = {}
    /\ analysisResults = <<>>
    /\ providerLog = <<>>
    /\ providerCalls = NoCalls
    /\ response = NoResponse
    /\ endpoint = "none"
    /\ svc = NoSvc
    /\ history = <<>>

\* the locals of a handler that has not been entered
NoHandler ==
    [srv |-> "Idle", text |-> <<>>, features |-> <<>>, results |-> NoBody,
     pending |-> {}, analysisResults |-> <<>>, providerLog |-> <<>>,
     response |-> NoResponse]

NoConc == [r \in {1, 2} |-> NoHandler]

IdleAux ==
    /\ showUpgrade = FALSE
    /\ conc = NoConc
    /\ logs = <<>>
    /\ logCount = 0
    /\ logWrites = 0

IdleTier ==
    /\ qDone = {}
    /\ qLimits = NoLimits
    /\ qAccess = FALSE
    /\ qName = ""
    /\ qColor = ""

(***************************************************************************)
(* Direct calls of the tier policy                                         *)
(***************************************************************************)

InitTier ==
    /\ azureConfigured = FALSE
    /\ user = NullUser
    /\ session = FALSE
    /\ IdleRequest
    /\ qTier \in TierValues
    /\ qFeature \in FeatureValues
    /\ IdleTier
    /\ IdleAux

CallGetTierLimits ==
    /\ "limits" \notin qDone
    /\ qLimits' = getTierLimits(qTier)
    /\ qDone' = qDone \cup {"limits"}
    /\ UNCHANGED <<reqVars, auxVars, qTier, qFeature, qAccess, qName, qColor>>

CallCanAccessFeature ==
    /\ "access" \notin qDone
    /\ qAccess' = canAccessFeature(qTier, qFeature)
    /\ qDone' = qDone \cup {"access"}
    /\ UNCHANGED <<reqVars, auxVars, qTier, qFeature, qLimits, qName, qColor>>

CallGetTierDisplayName ==
    /\ "name" \notin qDone
    /\ qName' = getTierDisplayName(qTier)
    /\ qDone' = qDone \cup {"name"}
    /\ UNCHANGED <<reqVars, auxVars, qTier, qFeature, qLimits, qAccess, qColor>>

CallGetTierColor ==
    /\ "color" \notin qDone
    /\ qColor' = getTierColor(qTier)
    /\ qDone' = qDone \cup {"color"}
    /\ UNCHANGED <<reqVars, auxVars, qTier, qFeature, qLimits, qAccess, qName>>

NextTier ==
    \/ CallGetTierLimits
    \/ CallCanAccessFeature
    \/ CallGetTierDisplayName
    \/ CallGetTierColor

SpecTier == InitTier /\ [][NextTier]_vars

(***************************************************************************)
(* Claims about the tier policy (checked under SpecTier)                   *)
(***************************************************************************)

KnownTiers == {"guest", "standard", "pro"}

Elems(arr) == {arr[i] : i \in 1..Len(arr)}

\* the table of section 4.1
GuaranteedTable ==
    [t \in KnownTiers |->
        CASE t = "guest" ->
               [maxFeatures |-> 1, allowedFeatures |-> <<"sentiment">>,
                hasHistory |-> FALSE, requiresAuth |-> FALSE]
          [] t = "standard" ->
               [maxFeatures |-> 2, allowedFeatures |-> <<"sentiment", "keyPhrases">>,
                hasHistory |-> TRUE, requiresAuth |-> TRUE]
          [] t = "pro" ->
               [maxFeatures |-> 5,
                allowedFeatures |-> SubSeq(AllFeatures, 1, 5),
                hasHistory |-> TRUE, requiresAuth |-> TRUE]]

\* C6: getTierLimits returns exactly the guaranteed table for guest,
\* standard and pro.
C6_TierTable ==
    ("limits" \in qDone /\ qTier \in KnownTiers) => qLimits = GuaranteedTable[qTier]

C6_Witness ==
    /\ "limits" \in qDone
    /\ qTier = "standard"
    /\ qLimits.maxFeatures = 2
    /\ qLimits.allowedFeatures = <<"sentiment", "keyPhrases">>

\* C7: for every tier value other than guest, standard and pro,
\* getTierLimits, getTierDisplayName and getTierColor return what they
\* return for guest.
C7_FallbackSafety ==
    qTier \notin KnownTiers =>
        /\ "limits" \in qDone => qLimits = getTierLimits("guest")
        /\ "name" \in qDone => qName = getTierDisplayName("guest")
        /\ "color" \in qDone => qColor = getTierColor("guest")

C7_Witness ==
    /\ qTier = "invalid"
    /\ qDone = {"limits", "name", "color"}
    /\ qLimits.maxFeatures = 1
    /\ qName = "Guest"

\* C8: canAccessFeature(tier, f) is true iff f is a member of
\* getTierLimits(tier).allowedFeatures; it is false for every unknown
\* feature value and always returns a boolean.
C8_PermissionGate ==
    "access" \in qDone =>
        /\ qAccess \in BOOLEAN
        /\ qAccess <=> (qFeature \in Elems(getTierLimits(qTier).allowedFeatures))
        /\ qFeature \in UnknownFeatures => ~qAccess

C8_Witness ==
    /\ "access" \in qDone
    /\ qTier = "standard"
    /\ qFeature = "entities"
    /\ ~qAccess

TierRank(t) == CASE t = "guest" -> 1 [] t = "standard" -> 2 [] t = "pro" -> 3

\* C9: for tiers T1 <= T2 in the order guest < standard < pro,
\* allowedFeatures(T1) is a subset of allowedFeatures(T2) and
\* maxFeatures(T1) <= maxFeatures(T2); for every tier the number of allowed
\* features equals maxFeatures.
C9_Monotonicity ==
    ("limits" \in qDone /\ qTier \in KnownTiers) =>
        /\ \A t1 \in KnownTiers :
              TierRank(t1) <= TierRank(qTier) =>
                  /\ Elems(getTierLimits(t1).allowedFeatures)
                        \subseteq Elems(qLimits.allowedFeatures)
                  /\ getTierLimits(t1).maxFeatures <= qLimits.maxFeatures
        /\ Len(qLimits.allowedFeatures) = qLimits.maxFeatures
        /\ Cardinality(Elems(qLimits.allowedFeatures)) = qLimits.maxFeatures

C9_Witness ==
    /\ "limits" \in qDone
    /\ qTier = "pro"
    /\ Elems(getTierLimits("standard").allowedFeatures)
          \subseteq Elems(qLimits.allowedFeatures)
    /\ qLimits.maxFeatures = 5

(***************************************************************************)
(* The comprehensive analysis request                                      *)
(***************************************************************************)

\* user?.tier || 'guest'
TierOf(u) == IF u = NullUser THEN "guest" ELSE u

Init ==
    /\ azureConfigured \in BOOLEAN
    /\ user = NullUser
    /\ session = FALSE
    /\ IdleRequest
    /\ qTier = "guest"
    /\ qFeature = "sentiment"
    /\ IdleTier
    /\ IdleAux

\* AuthContext: dispatch({ type: 'SET_GUEST' }) in initAuth, logout and
\* switchToGuest; none of them signs the Supabase client out
SetGuest ==
    /\ srv = "Idle" /\ via = "none"
    /\ user # "guest"
    /\ user' = "guest"
    /\ UNCHANGED <<azureConfigured, via, uiText, selectedFeatures, client, req,
                   srv, results, pending, analysisResults, providerLog,
                   providerCalls, response, endpoint, session, svc, history,
                   tierVars, auxVars>>

\* AuthContext: login / register end in dispatch({ type: 'SET_USER' });
\* authService.login signs the Supabase client in (persistSession: true)
SetUser ==
    /\ srv = "Idle" /\ via = "none"
    /\ \E t \in {"standard", "pro"} :
          /\ user # t
          /\ user' = t
    /\ session' = TRUE
    /\ UNCHANGED <<azureConfigured, via, uiText, selectedFeatures, client, req,
                   srv, results, pending, analysisResults, providerLog,
                   providerCalls, response, endpoint, svc, history, tierVars, auxVars>>

\* the body analyzeTextComprehensive sends: { text: text.trim(), features }
ClientRequest(text, features) ==
    [text |-> [isString |-> TRUE, str |-> Trim(text)],
     features |-> FeatureArray(features)]

\* App.tsx: useState(['sentiment', 'keyPhrases', 'entities'])
InitialSelection == <<"sentiment", "keyPhrases", "entities">>

\* the selections handleAnalyze is called with: before any SET_GUEST or
\* SET_USER the selection App starts with; afterwards any list, since the
\* selection outlives a change of user
Selections(u) == IF u = NullUser THEN {InitialSelection} ELSE FeatureLists

\* mutant of DefaultFeatures: the default list lacks language
DefaultFeatures_noLanguage(arg) ==
    IF arg.present THEN arg.list
    ELSE <<"sentiment", "keyPhrases", "entities", "summary">>

\* features: string[] = ['sentiment', 'keyPhrases', 'entities', 'summary',
\* 'language'], the default of analyzeTextComprehensive's second parameter
DefaultFeatures(arg) == IF arg.present THEN arg.list ELSE AllFeatures

\* TextAnalyzer.handleAnalyze up to the fetch of analyzeTextComprehensive
HandleAnalyze ==
    /\ srv = "Idle" /\ via = "none"
    /\ \E text \in Texts, features \in Selections(user) :
          /\ via' = "client"
          /\ uiText' = text
          /\ selectedFeatures' = features
          /\ IF Trim(text) = <<>>
             THEN /\ client' = [NoClient EXCEPT !.errorType = "validation",
                                   !.errorMessage = "Please enter some text to analyze"]
                  /\ UNCHANGED <<req, srv, endpoint, svc>>
             ELSE IF StrLength(text) > ClientMaxLength
             THEN /\ client' = [NoClient EXCEPT !.errorType = "validation",
                                   !.errorMessage = "Text is too long. Please limit to 10,000 characters."]
                  /\ UNCHANGED <<req, srv, endpoint, svc>>
             ELSE IF Len(features) = 0
             THEN /\ client' = [NoClient EXCEPT !.errorType = "validation",
                                   !.errorMessage = "Please select at least one analysis feature."]
                  /\ UNCHANGED <<req, srv, endpoint, svc>>
             ELSE /\ client' = [NoClient EXCEPT !.loading = TRUE]
                  /\ svc' = [NoSvc EXCEPT !.at = "fetch",
                                !.features = [present |-> TRUE, list |-> features]]
                  /\ req' = ClientRequest(text, DefaultFeatures(svc'.features))
                  /\ endpoint' = "analyze-text"
                  /\ srv' = "Received"
    /\ UNCHANGED <<azureConfigured, user, results, pending, analysisResults,
                   providerLog, providerCalls, response, session, history,
                   tierVars, auxVars>>

\* analyzeTextComprehensive(text) called without its second argument, up to
\* the fetch
CallAnalyzeTextComprehensive ==
    /\ srv = "Idle" /\ via = "none"
    /\ \E text \in Texts :
          /\ via' = "service"
          /\ uiText' = text
          /\ IF Trim(text) = <<>>
             THEN /\ svc' = [NoSvc EXCEPT !.at = "threw",
                                !.message = "Text is required for comprehensive analysis"]
                  /\ UNCHANGED <<req, srv, endpoint>>
             ELSE /\ svc' = [NoSvc EXCEPT !.at = "fetch"]
                  /\ req' = ClientRequest(text, DefaultFeatures(svc'.features))
                  /\ endpoint' = "analyze-text"
                  /\ srv' = "Received"
    /\ UNCHANGED <<azureConfigured, user, selectedFeatures, client, results,
                   pending, analysisResults, providerLog, providerCalls,
                   response, session, history, tierVars, auxVars>>

\* the request bodies a caller of the HTTP endpoint sends
HttpTexts ==
    {[isString |-> FALSE, str |-> <<>>]}
    \cup {[isString |-> TRUE, str |-> t] : t \in Texts}

HttpFeatures ==
    {NoFeatures, NotAnArray}
    \cup {FeatureArray(fs) : fs \in FeatureLists}
    \cup {FeatureArray(<<"sentiment", u>>) : u \in UnknownFeatures}

\* a POST /api/analyze-text that does not come from the client service
HttpPost ==
    /\ srv = "Idle" /\ via = "none"
    /\ \E text \in HttpTexts, features \in HttpFeatures :
          /\ req' = [text |-> text, features |-> features]
    /\ via' = "http"
    /\ endpoint' = "analyze-text"
    /\ srv' = "Received"
    /\ UNCHANGED <<azureConfigured, user, uiText, selectedFeatures, client,
                   results, pending, analysisResults, providerLog,
                   providerCalls, response, session, svc, history, tierVars, auxVars>>

\* a value of results.features: shape names the payload whose fields the
\* object has ("none": no payload field), error is its error field
Payload(f) == [shape |-> f, error |-> Undefined]

UndefinedPayload == [shape |-> "undefined", error |-> Undefined]

ErrorEntry(message) == [shape |-> "none", error |-> message]

\* what the provider does with a call: it answers, or the call throws
ProviderOutcomes ==
    {[ok |-> TRUE, message |-> Undefined]}
    \cup {[ok |-> FALSE, message |-> m] : m \in FailureMessages}

\* mutant of FeatureCall: every feature function returns a fallback object
\* in place of throwing
FeatureCall_swallowAll(f, outcome) ==
    IF outcome.ok
    THEN [threw |-> FALSE, value |-> Payload(f), message |-> Undefined]
    ELSE [threw |-> FALSE, value |-> [shape |-> f, error |-> outcome.message],
          message |-> Undefined]

\* analyzeSentiment, extractKeyPhrases, recognizeEntities, detectLanguage
\* return the provider's document or let the error of callAzureLanguageAPI
\* through; summarizeText catches it and returns a fallback object
FeatureCall(f, outcome) ==
    IF outcome.ok
    THEN [threw |-> FALSE, value |-> Payload(f), message |-> Undefined]
    ELSE IF f = "summary"
         THEN [threw |-> FALSE,
               value |-> [shape |-> "summary", error |-> outcome.message],
               message |-> Undefined]
         ELSE [threw |-> TRUE, value |-> UndefinedPayload,
               message |-> outcome.message]

\* .then(result => ({ type, data: result }))
\* .catch(error => ({ type, error: error.message }))
Wrap(f, r) ==
    IF r.threw
    THEN [type |-> f, data |-> UndefinedPayload, error |-> r.message]
    ELSE [type |-> f, data |-> r.value, error |-> Undefined]

\* mutant of FeatureSlot: the error branch is missing
FeatureSlot_noErrorBranch(w) == w.data

\* the body of analysisResults.forEach
FeatureSlot(w) ==
    IF Truthy(w.error) THEN ErrorEntry(w.error) ELSE w.data

\* mutant of Aggregate: one failed call empties the features map
Aggregate_failFast(ar) ==
    IF \E f \in DOMAIN ar : Truthy(ar[f].error)
    THEN <<>>
    ELSE [f \in DOMAIN ar |-> FeatureSlot(ar[f])]

\* mutant of Aggregate: the entries of failed calls are left out
Aggregate_dropFailed(ar) ==
    LET kept == {f \in DOMAIN ar : ~Truthy(ar[f].error)}
    IN  [f \in kept |-> FeatureSlot(ar[f])]

\* results.features after the forEach, as res.json serialises it (a key
\* whose value is undefined is left out)
Aggregate(ar) ==
    LET kept == {f \in DOMAIN ar : FeatureSlot(ar[f]) # UndefinedPayload}
    IN  [f \in kept |-> FeatureSlot(ar[f])]

\* const { text, features = [all five] } = req.body
RequestedFeatures(r) ==
    IF r.features.present THEN r.features.list ELSE AllFeatures

\* mutant of Dispatched: the sentiment call is made whatever was requested
Dispatched_sentimentAlways(text, features) ==
    {f \in FeatureSet :
        /\ f = "sentiment" \/ Includes(features, f)
        /\ f = "summary" => StrLength(text) > SummaryMinLength}

\* the features for which the handler pushes a promise
Dispatched(text, features) ==
    {f \in FeatureSet :
        /\ Includes(features, f)
        /\ f = "summary" => StrLength(text) > SummaryMinLength}

\* mutant of IssueCalls: every call is made twice
IssueCalls_twice(calls, d) ==
    [f \in FeatureSet |-> IF f \in d THEN calls[f] + 2 ELSE calls[f]]

\* the calls the provider has received once the handler has pushed its
\* promises: one more for each feature dispatched
IssueCalls(calls, d) ==
    [f \in FeatureSet |-> IF f \in d THEN calls[f] + 1 ELSE calls[f]]

\* mutant of JoinReady: the join ends as soon as one call has failed
JoinReady_failFast(p, ar) ==
    p = {} \/ \E f \in DOMAIN ar : Truthy(ar[f].error)

\* await Promise.all(analysisPromises): every promise carries its own
\* .catch, so the join ends when all of them have settled
JoinReady(p, ar) == p = {}

\* mutant of Reject: every refusal is sent with status 400
Reject_always400(status, error, message) ==
    [status |-> 400, error |-> error, message |-> message, body |-> NoBody]

\* res.status(status).json({ error, message })
Reject(status, error, message) ==
    [status |-> status, error |-> error, message |-> message, body |-> NoBody]

\* POST /api/analyze-text from its first line to await Promise.all; a
\* features value without an includes method makes features.includes throw
\* before the first promise is pushed, and the catch block answers 500
ServerHandle ==
    /\ srv = "Received"
    /\ endpoint = "analyze-text"
    /\ LET text == req.text.str
           features == RequestedFeatures(req)
       IN  IF ~req.text.isString \/ text = <<>>
           THEN /\ response' = Reject(400, "Invalid input",
                                      "Text is required and must be a string")
                /\ srv' = "Rejected"
                /\ UNCHANGED <<results, pending, providerCalls>>
           ELSE IF StrLength(text) > ServerMaxLength
           THEN /\ response' = Reject(400, "Text too long",
                                      "Text must be less than 5,120 characters to comply with Azure Language API limits")
                /\ srv' = "Rejected"
                /\ UNCHANGED <<results, pending, providerCalls>>
           ELSE IF StrLength(Trim(text)) = 0
           THEN /\ response' = Reject(400, "Empty text",
                                      "Please provide some text to analyze")
                /\ srv' = "Rejected"
                /\ UNCHANGED <<results, pending, providerCalls>>
           ELSE /\ results' = [text |-> text, wordCount |-> WordCount(text),
                               characterCount |-> StrLength(text),
                               features |-> <<>>]
                /\ IF ~azureConfigured
                   THEN /\ response' = Reject(503, "Azure not configured",
                                              "Azure Language API is not properly configured for comprehensive analysis")
                        /\ srv' = "Unavailable"
                        /\ UNCHANGED <<pending, providerCalls>>
                   ELSE IF req.features.present /\ ~req.features.isArray
                   THEN /\ response' = Reject(500, "Analysis failed",
                                              "Unable to analyze text at this time. Please try again later.")
                        /\ srv' = "Failed"
                        /\ UNCHANGED <<pending, providerCalls>>
                   ELSE /\ pending' = Dispatched(text, features)
                        /\ providerCalls' =
                              IssueCalls(providerCalls, Dispatched(text, features))
                        /\ srv' = "Dispatching"
                        /\ UNCHANGED response
    /\ UNCHANGED <<azureConfigured, user, via, uiText, selectedFeatures, client,
                   req, analysisResults, providerLog, endpoint, session, svc,
                   history, tierVars, auxVars>>

\* one provider call settles and its promise resolves to the wrapped outcome
ProviderSettle ==
    /\ srv = "Dispatching"
    /\ endpoint = "analyze-text"
    /\ \E f \in pending, outcome \in ProviderOutcomes :
          /\ pending' = pending \ {f}
          /\ providerLog' = (f :> outcome) @@ providerLog
          /\ analysisResults' = (f :> Wrap(f, FeatureCall(f, outcome))) @@ analysisResults
    /\ UNCHANGED <<azureConfigured, user, via, uiText, selectedFeatures, client,
                   req, srv, results, providerCalls, response, endpoint,
                   session, svc, history, tierVars, auxVars>>

\* POST /api/analyze-text after await Promise.all: forEach and res.json
ServerAggregate ==
    /\ srv = "Dispatching"
    /\ endpoint = "analyze-text"
    /\ JoinReady(pending, analysisResults)
    /\ results' = [results EXCEPT !.features = Aggregate(analysisResults)]
    /\ response' = [status |-> 200, error |-> "", message |-> "", body |-> results']
    /\ srv' = "Completed"
    /\ UNCHANGED <<azureConfigured, user, via, uiText, selectedFeatures, client,
                   req, pending, analysisResults, providerLog, providerCalls,
                   endpoint, session, svc, history, tierVars, auxVars>>

\* the message of the Error analyzeTextComprehensive throws when the
\* response is not ok
ResponseError(r) ==
    IF r.status = 400
    THEN (IF Truthy(r.message) THEN r.message ELSE "Invalid input provided")
    ELSE IF r.status = 503
    THEN "Analysis service is not available. Please check your Azure configuration."
    ELSE IF Truthy(r.message) THEN r.message
    ELSE "Request failed"

\* TextAnalyzer.handleAnalyze after the await: setResult on a return,
\* setError({ type: 'network' }) on a throw; a direct caller of the service
\* has no component state
AfterCall(threw, message) ==
    IF via # "client" THEN client
    ELSE IF threw
    THEN [NoClient EXCEPT !.errorType = "network", !.errorMessage = message]
    ELSE [NoClient EXCEPT !.hasResult = TRUE, !.result = response.body]

Throw(message) == [svc EXCEPT !.at = "threw", !.message = message]

Return(result) == [svc EXCEPT !.at = "returned", !.result = result]

\* analyzeTextComprehensive after the fetch: the error of a response that is
\* not ok is thrown, otherwise supabase.auth.getUser() is awaited
ClientReceive ==
    /\ via \in {"client", "service"}
    /\ endpoint = "analyze-text"
    /\ svc.at = "fetch"
    /\ response.status # 0
    /\ IF response.status = 200
       THEN /\ svc' = [svc EXCEPT !.at = "getUser"]
            /\ UNCHANGED client
       ELSE /\ svc' = Throw(ResponseError(response))
            /\ client' = AfterCall(TRUE, ResponseError(response))
    /\ UNCHANGED <<azureConfigured, user, via, uiText, selectedFeatures, req, srv,
                   results, pending, analysisResults, providerLog, providerCalls,
                   response, endpoint, session, history, tierVars, auxVars>>

\* what supabase.auth.getUser() comes to: without a session { user: null };
\* with one the user, { user: null } with an error, or a rejection
GetUserOutcomes(s) == IF s THEN {"user", "error", "threw"} ELSE {"null"}

\* what the awaited insert comes to: a row, an error value, or a rejection
InsertOutcomes == {"ok", "error", "threw"}

\* if (user): the history insert is made for a user getUser returned
SavesHistory(u) == u = "user"

\* analyzeTextComprehensive from the settling of getUser: a rejection leaves
\* through the outer catch, a user starts the insert, no user returns result
GetUserSettle ==
    /\ svc.at = "getUser"
    /\ \E o \in GetUserOutcomes(session) :
          IF o = "threw"
          THEN /\ svc' = [Throw("Failed to get user") EXCEPT !.getUser = o]
               /\ client' = AfterCall(TRUE, "Failed to get user")
          ELSE IF SavesHistory(o)
          THEN /\ svc' = [svc EXCEPT !.at = "insert", !.getUser = o,
                             !.insert = "pending"]
               /\ UNCHANGED client
          ELSE /\ svc' = [Return(response.body) EXCEPT !.getUser = o]
               /\ client' = AfterCall(FALSE, "")
    /\ UNCHANGED <<azureConfigured, user, via, uiText, selectedFeatures, req, srv,
                   results, pending, analysisResults, providerLog, providerCalls,
                   response, endpoint, session, history, tierVars, auxVars>>

\* the row analyzeTextComprehensive hands to insert
HistoryRow ==
    [user_id |-> svc.getUser, text |-> Trim(uiText),
     features |-> DefaultFeatures(svc.features), result |-> response.body]

\* analyzeTextComprehensive from the settling of the insert: a rejection is
\* caught and logged, an error value is not looked at, result is returned
InsertSettle ==
    /\ svc.at = "insert"
    /\ \E o \in InsertOutcomes :
          /\ svc' = [Return(response.body) EXCEPT !.insert = o]
          /\ history' = IF o = "ok" THEN Append(history, HistoryRow) ELSE history
    /\ client' = AfterCall(FALSE, "")
    /\ UNCHANGED <<azureConfigured, user, via, uiText, selectedFeatures, req, srv,
                   results, pending, analysisResults, providerLog, providerCalls,
                   response, endpoint, session, tierVars, auxVars>>

ResetRequest ==
    /\ via' = "none"
    /\ uiText' = <<>>
    /\ selectedFeatures' = <<>>
    /\ client' = NoClient
    /\ req' = NoReq
    /\ srv' = "Idle"
    /\ results' = NoBody
    /\ pending' = {}
    /\ analysisResults' = <<>>
    /\ providerLog' = <<>>
    /\ providerCalls' = NoCalls
    /\ response' = NoResponse
    /\ endpoint' = "none"
    /\ svc' = NoSvc
    /\ history' = <<>>
    /\ UNCHANGED <<azureConfigured, user, session, tierVars, auxVars>>

\* TextAnalyzer.handleReset, offered once a result or an error is shown
HandleReset ==
    /\ via = "client"
    /\ endpoint \in {"none", "analyze-text"}
    /\ client.hasResult \/ client.errorType # ""
    /\ ResetRequest

\* the direct call of the service has returned or thrown
ServiceDone ==
    /\ via = "service"
    /\ endpoint \in {"none", "analyze-text"}
    /\ svc.at \in {"returned", "threw"}
    /\ ResetRequest

\* the response has gone out and the handler's locals are dropped
HttpClose ==
    /\ via = "http"
    /\ endpoint = "analyze-text"
    /\ response.status # 0
    /\ ResetRequest

Next ==
    \/ SetGuest
    \/ SetUser
    \/ HandleAnalyze
    \/ CallAnalyzeTextComprehensive
    \/ HttpPost
    \/ ServerHandle
    \/ ProviderSettle
    \/ ServerAggregate
    \/ ClientReceive
    \/ GetUserSettle
    \/ InsertSettle
    \/ HandleReset
    \/ ServiceDone
    \/ HttpClose

Spec == Init /\ [][Next]_vars

(***************************************************************************)
(* Claims about the comprehensive analysis request (checked under Spec)    *)
(***************************************************************************)

NoProviderCalls == \A f \in FeatureSet : providerCalls[f] = 0

\* the server has gone through its validation
Handled == srv \notin {"Idle", "Received"}

\* the five-feature members of the request's feature list
Requested == Elems(RequestedFeatures(req)) \cap FeatureSet

FailedCalls == {f \in DOMAIN providerLog : ~providerLog[f].ok}

BlankRequest == req.text.isString /\ Trim(req.text.str) = <<>>

\* whitespace-delimited tokens: the places where a word starts
TokenCount(t) ==
    Cardinality({i \in 1..Len(t) : ~t[i].ws /\ (i = 1 \/ t[i - 1].ws)})

\* C1: a request with a feature the caller's tier cannot access is rejected
\* as a whole: it is never dispatched and no provider call is made.
C1_PermissionRejected ==
    (srv # "Idle" /\ \E f \in Requested : ~canAccessFeature(TierOf(user), f)) =>
        /\ srv \notin {"Dispatching", "Completed"}
        /\ NoProviderCalls

\* C2 as stated: when exactly one requested feature's provider call fails,
\* the request completes with a result in which every other requested
\* feature's slot holds its successful payload and the statistics are right.
C2_EveryOtherRequested ==
    (Handled /\ pending = {} /\ Cardinality(FailedCalls) = 1) =>
        /\ srv \in {"Dispatching", "Completed"}
        /\ srv = "Completed" =>
              /\ response.status = 200
              /\ \A g \in Requested \ FailedCalls :
                    /\ g \in DOMAIN response.body.features
                    /\ response.body.features[g] = Payload(g)
              /\ response.body.wordCount = TokenCount(req.text.str)
              /\ response.body.characterCount = StrLength(req.text.str)

\* C2 amended: when exactly one requested feature's provider call fails, the
\* request completes with a result (status 200) in which every other
\* requested feature whose provider call was made holds its successful
\* payload, and wordCount and characterCount are those of the request text.
C2_PartialFailureContainment ==
    (Handled /\ pending = {} /\ Cardinality(FailedCalls) = 1) =>
        /\ srv \in {"Dispatching", "Completed"}
        /\ srv = "Dispatching" => ENABLED ServerAggregate
        /\ srv = "Completed" =>
              /\ response.status = 200
              /\ \A g \in Requested \ FailedCalls :
                    providerCalls[g] > 0 =>
                        /\ g \in DOMAIN response.body.features
                        /\ response.body.features[g] = Payload(g)
              /\ response.body.wordCount = TokenCount(req.text.str)
              /\ response.body.characterCount = StrLength(req.text.str)

C2_Witness ==
    /\ srv = "Completed"
    /\ Requested = {"sentiment", "keyPhrases", "entities"}
    /\ FailedCalls = {"keyPhrases"}
    /\ response.body.features["sentiment"] = Payload("sentiment")
    /\ response.body.features["entities"] = Payload("entities")
    /\ response.body.wordCount = 2

\* C3 as stated: the slot of every feature whose provider call failed is
\* exactly { error: message }.
C3_FailureEntryOnly ==
    srv = "Completed" =>
        \A f \in FailedCalls :
            /\ f \in DOMAIN response.body.features
            /\ response.body.features[f] = ErrorEntry(providerLog[f].message)

\* C3 amended: the slot of a failed sentiment, keyPhrases, entities or
\* language call is exactly { error: message }; the slot of a failed summary
\* call is the fallback summary object, which carries error: message next to
\* its summary fields; in neither case is the slot missing.
C3_FailureSlot ==
    srv = "Completed" =>
        \A f \in FailedCalls :
            /\ f \in DOMAIN response.body.features
            /\ response.body.features[f].error = providerLog[f].message
            /\ response.body.features[f].shape =
                  (IF f = "summary" THEN "summary" ELSE "none")

C3_Witness ==
    /\ srv = "Completed"
    /\ FailedCalls = {"sentiment", "summary", "language"}
    /\ providerLog["sentiment"].message # providerLog["summary"].message
    /\ response.body.features["sentiment"] = ErrorEntry(providerLog["sentiment"].message)
    /\ response.body.features["summary"].shape = "summary"

\* C4: a request whose text is empty or whitespace only is rejected with a
\* 'text required' error and no provider call is made.
C4_BlankTextRejected ==
    /\ (Handled /\ BlankRequest) =>
          /\ srv = "Rejected"
          /\ response.error \in {"Invalid input", "Empty text"}
          /\ NoProviderCalls
    /\ (via = "client" /\ Trim(uiText) = <<>>) =>
          /\ srv = "Idle"
          /\ client.errorType = "validation"
          /\ NoProviderCalls

\* C5: a request with an empty feature list is rejected and never reaches
\* dispatch; it never completes with a result.
C5_EmptyFeaturesRejected ==
    /\ (Handled /\ req.features.present /\ req.features.list = <<>>) =>
          /\ srv \notin {"Dispatching", "Completed"}
          /\ response.status # 200
    /\ (via = "client" /\ selectedFeatures = <<>>) => srv = "Idle"

\* C10: on the comprehensive endpoint every non-blank text of 1..10,000
\* characters passes length validation and reaches dispatch, and a text of
\* 10,001 characters is rejected as too long with no provider call.
C10_CeilingTenThousand ==
    /\ (Handled /\ azureConfigured /\ req.text.isString /\ ~BlankRequest
           /\ StrLength(req.text.str) <= ClientMaxLength) =>
          srv \in {"Dispatching", "Completed"}
    /\ (Handled /\ req.text.isString /\ ~BlankRequest
           /\ StrLength(req.text.str) > ClientMaxLength) =>
          /\ srv = "Rejected"
          /\ response.error = "Text too long"
          /\ NoProviderCalls
    /\ (via = "client" /\ Trim(uiText) # <<>> /\ StrLength(uiText) > ClientMaxLength) =>
          /\ srv = "Idle"
          /\ client.errorType = "validation"

\* C12 as stated: a requested summary is dispatched exactly when the text has
\* at least 200 characters; with a shorter text the request is not rejected
\* and the other requested features are still dispatched.
C12_SummaryFromTwoHundred ==
    (srv \in {"Dispatching", "Completed"} /\ "summary" \in Requested) =>
        /\ providerCalls["summary"] > 0 <=> StrLength(req.text.str) >= 200
        /\ \A f \in Requested \ {"summary"} : providerCalls[f] > 0

\* C14 as stated: the features map of a completed result has an entry for
\* every originally requested feature.
C14_EntryPerRequested ==
    srv = "Completed" =>
        \A f \in Requested : f \in DOMAIN response.body.features

\* the entry is the feature's payload or carries the message of its failure
SuccessOrFailure(f) ==
    \/ response.body.features[f] = Payload(f)
    \/ /\ f \in FailedCalls
       /\ response.body.features[f].error = providerLog[f].message

\* C14 amended: the features map of a completed result has exactly one entry,
\* success or failure, for every requested feature whose provider call was
\* made: every requested feature other than summary, and summary when it was
\* dispatched.
C14_EntryPerDispatched ==
    srv = "Completed" =>
        /\ \A f \in Requested :
              (f # "summary" \/ providerCalls[f] > 0) =>
                  /\ f \in DOMAIN response.body.features
                  /\ SuccessOrFailure(f)
        /\ \A f \in Requested :
              providerCalls[f] = 0 => f \notin DOMAIN response.body.features

C14_Witness ==
    /\ srv = "Completed"
    /\ Requested = FeatureSet
    /\ providerCalls["summary"] = 0
    /\ FailedCalls = {"entities"}
    /\ DOMAIN response.body.features =
          {"sentiment", "keyPhrases", "entities", "language"}

\* C15: no provider call is made for, and no features entry is written for,
\* a feature that is not in the requested list.
C15_NothingUnrequested ==
    srv # "Idle" =>
        /\ \A f \in FeatureSet \ Requested :
              /\ providerCalls[f] = 0
              /\ f \notin pending
              /\ f \notin DOMAIN analysisResults
        /\ DOMAIN response.body.features \subseteq Elems(RequestedFeatures(req))

C15_Witness ==
    /\ srv = "Completed"
    /\ req.features.present
    /\ Requested = {"keyPhrases", "language"}
    /\ DOMAIN response.body.features = {"keyPhrases", "language"}
    /\ \A f \in FeatureSet :
          providerCalls[f] = (IF f \in {"keyPhrases", "language"} THEN 1 ELSE 0)

\* the text the caller submitted: the body's text over HTTP, the argument of
\* the client call otherwise
Submitted == IF via = "http" THEN req.text.str ELSE uiText

\* C16 as stated: wordCount is the number of whitespace-delimited tokens of
\* the trimmed text and characterCount the length of the submitted text.
C16_CountsOfSubmittedText ==
    srv = "Completed" =>
        /\ response.body.wordCount = TokenCount(Submitted)
        /\ response.body.characterCount = StrLength(Submitted)

\* C16 amended: wordCount is the number of whitespace-delimited tokens of the
\* trimmed text; characterCount is the length of the text the endpoint
\* received, which is the submitted text over HTTP and the trimmed text
\* through the client call; both depend on the text alone, whatever was
\* requested and whichever calls failed.
C16_CountsOfReceivedText ==
    srv = "Completed" =>
        /\ response.body.wordCount = TokenCount(Submitted)
        /\ response.body.characterCount =
              StrLength(IF via = "http" THEN Submitted ELSE Trim(Submitted))
        /\ svc.at = "returned" =>
              /\ svc.result.wordCount = TokenCount(Submitted)
              /\ svc.result.characterCount = StrLength(Trim(Submitted))

C16_Witness ==
    /\ srv = "Completed"
    /\ via = "client"
    /\ svc.at = "returned"
    /\ StrLength(uiText) = StrLength(Trim(uiText)) + 2
    /\ FailedCalls # {}
    /\ client.result.wordCount = 2
    /\ client.result.characterCount = 3

\* C17: when a step of the history persistence fails (getUser or the insert
\* throws or returns an error value) analyzeTextComprehensive still returns
\* exactly the result and raises no error.
C17_PersistenceFailureSwallowed ==
    (svc.getUser \in {"error", "threw"} \/ svc.insert \in {"error", "threw"}) =>
        /\ svc.at = "returned"
        /\ svc.result = response.body
        /\ via = "client" =>
              /\ client.hasResult
              /\ client.result = response.body
              /\ client.errorType = ""

\* C18: the history insert is attempted only when the analysis completed with
\* a result and the caller is an authenticated user, not a guest.
C18_HistoryOnlyForAuthenticated ==
    svc.insert # "none" =>
        /\ srv = "Completed"
        /\ response.status = 200
        /\ user \in {"standard", "pro"}

UnavailableMessage ==
    "Analysis service is not available. Please check your Azure configuration."

\* C19: when the provider is not configured a request that passes validation
\* ends in the 503 'Azure not configured' outcome, which is neither a
\* validation refusal (400) nor a result, with no provider call; the client
\* call throws a message no validation failure produces.
C19_ServiceUnavailable ==
    /\ (Handled /\ ~azureConfigured) =>
          /\ srv \in {"Rejected", "Unavailable"}
          /\ NoProviderCalls /\ pending = {}
          /\ response.body = NoBody
    /\ (Handled /\ ~azureConfigured /\ req.text.isString /\ ~BlankRequest
           /\ StrLength(req.text.str) <= ServerMaxLength) =>
          srv = "Unavailable"
    /\ srv = "Unavailable" =>
          /\ ~azureConfigured
          /\ response.status = 503
          /\ response.error = "Azure not configured"
    /\ srv = "Rejected" => response.status = 400
    /\ svc.at = "threw" => (svc.message = UnavailableMessage <=> srv = "Unavailable")
    /\ (via = "client" /\ client.errorType # "") =>
          (client.errorMessage = UnavailableMessage <=> srv = "Unavailable")

C19_Witness ==
    /\ srv = "Unavailable"
    /\ via = "client"
    /\ response.status = 503
    /\ client.errorMessage = UnavailableMessage
    /\ Requested = {"sentiment", "summary"}

\* C20: a request without a features field is handled exactly as one that
\* names sentiment, keyPhrases, entities, summary and language, at the HTTP
\* endpoint and in the client call.
C20_OmittedFeaturesAreAll ==
    LET five == <<"sentiment", "keyPhrases", "entities", "summary", "language">>
    IN  /\ (srv \in {"Dispatching", "Completed"} /\ ~req.features.present) =>
              /\ {f \in FeatureSet : providerCalls[f] > 0} = Dispatched(req.text.str, five)
              /\ srv = "Completed" =>
                    DOMAIN response.body.features = Dispatched(req.text.str, five)
        /\ (svc.at # "none" /\ ~svc.features.present /\ srv # "Idle") =>
              req.features = FeatureArray(five)
        /\ (svc.insert = "ok" /\ ~svc.features.present) =>
              history[1].features = five

C20_Witness ==
    /\ via = "service"
    /\ ~svc.features.present
    /\ svc.insert = "ok"
    /\ DOMAIN svc.result.features = FeatureSet
    /\ Len(history) = 1

\* C22: when a comprehensive request fails more than one validation check,
\* the error reported is that of the first failing check in the order text
\* non-empty after trimming, text length within the ceiling, features
\* non-empty.
C22_FirstFailingCheck ==
    /\ (endpoint = "analyze-text" /\ Handled /\ req.text.isString
           /\ Trim(req.text.str) = <<>>) =>
          /\ srv = "Rejected"
          /\ response.error \in {"Invalid input", "Empty text"}
    /\ (via = "client" /\ client.errorType = "validation") =>
          client.errorMessage =
             (IF Trim(uiText) = <<>>
              THEN "Please enter some text to analyze"
              ELSE IF StrLength(uiText) > ClientMaxLength
              THEN "Text is too long. Please limit to 10,000 characters."
              ELSE "Please select at least one analysis feature.")

\* C23: the comprehensive response is produced only after every dispatched
\* call has settled; while a call is pending no response exists, even when
\* another call has already failed.
C23_JoinWaitsForAll ==
    endpoint = "analyze-text" =>
        /\ (srv = "Dispatching" /\ pending # {}) => response.status = 0
        /\ response.status = 200 =>
              /\ pending = {}
              /\ DOMAIN analysisResults = {f \in FeatureSet : providerCalls[f] > 0}
              /\ DOMAIN response.body.features = DOMAIN analysisResults

C23_Witness ==
    /\ endpoint = "analyze-text"
    /\ srv = "Dispatching"
    /\ Cardinality(pending) = 2
    /\ FailedCalls = {"sentiment"}
    /\ response.status = 0

\* C24: the result is returned independently of the history insert: while
\* the insert has not completed the result has already been returned.
C24_ResultNotBehindInsert ==
    svc.insert = "pending" =>
        /\ svc.at = "returned"
        /\ via = "client" => client.hasResult

\* C25: with every dispatched call settled, a comprehensive request on a
\* configured server ends Rejected with a validation error or Completed,
\* whatever its body; a Rejected request has dispatched nothing.
C25_RejectedOrCompleted ==
    /\ (endpoint = "analyze-text" /\ azureConfigured /\ response.status # 0) =>
          \/ srv = "Rejected" /\ response.status = 400
          \/ srv = "Completed" /\ response.status = 200
    /\ (endpoint = "analyze-text" /\ srv = "Rejected") =>
          NoProviderCalls /\ pending = {}

\* C26: within one comprehensive request the provider call of each feature
\* is issued at most once; a failed call is recorded as a failure and not
\* issued again.
C26_NoRetry ==
    endpoint = "analyze-text" =>
        /\ \A f \in FeatureSet : providerCalls[f] <= 1
        /\ \A f \in FailedCalls :
              /\ providerCalls[f] = 1
              /\ f \notin pending
              /\ Truthy(analysisResults[f].error) \/ Truthy(analysisResults[f].data.error)
              /\ svc.at = "returned" => Truthy(svc.result.features[f].error)

C26_Witness ==
    /\ endpoint = "analyze-text"
    /\ via = "client"
    /\ svc.at = "returned"
    /\ FailedCalls = {"sentiment", "language"}
    /\ providerCalls["sentiment"] = 1
    /\ providerCalls["language"] = 1
    /\ client.result.features["language"] = ErrorEntry(providerLog["language"].message)

(***************************************************************************)
(* The single-feature requests: sentiment and summary                      *)
(***************************************************************************)

\* server/index.js:577 and sentimentService.ts:142, the fewest characters
\* the summary operation takes
SummarizeMinLength == 200

\* lengths of the first word of an input text of the single-feature
\* operations: the boundaries of their checks
SingleWordLens ==
    {1, SummarizeMinLength - 2, SummarizeMinLength - 1, SummarizeMinLength,
     ServerMaxLength, ServerMaxLength + 1}

SingleTexts ==
    {<<>>}
    \cup {<<Ws(n)>> : n \in BlankLens}
    \cup {MkText(p, n, k) :
             p \in 0..MaxPad, n \in SingleWordLens, k \in 0..MaxExtraWords}

SingleHttpTexts ==
    {[isString |-> FALSE, str |-> <<>>]}
    \cup {[isString |-> TRUE, str |-> t] : t \in SingleTexts}

\* the routes whose handlers check the text and the ceiling and nothing else
PlainEndpoints == {"extract-key-phrases", "recognize-entities", "detect-language"}

SingleEndpoints == {"analyze-sentiment", "summarize-text"} \cup PlainEndpoints

\* the feature function a single-feature handler awaits
FeatureOf(e) ==
    CASE e = "analyze-sentiment" -> "sentiment"
      [] e = "extract-key-phrases" -> "keyPhrases"
      [] e = "recognize-entities" -> "entities"
      [] e = "summarize-text" -> "summary"
      [] OTHER -> "language"

\* what the provider does with the call of a single-feature handler: it
\* answers, the call throws, or it answers with a body that has no
\* results.documents, on which the feature function throws a TypeError
SingleProviderOutcomes ==
    ProviderOutcomes
    \cup {[ok |-> FALSE,
           message |-> "Cannot read properties of undefined (reading 'documents')"]}

InitSingle ==
    /\ azureConfigured \in BOOLEAN
    /\ user = NullUser
    /\ session = FALSE
    /\ IdleRequest
    /\ qTier = "guest"
    /\ qFeature = "sentiment"
    /\ IdleTier
    /\ IdleAux

\* the body analyzeSentiment and summarizeText send: { text: text.trim() }
SingleRequest(text) ==
    [text |-> [isString |-> TRUE, str |-> Trim(text)],
     features |-> NoFeatures]

\* SentimentAnalyzer.handleAnalyze up to the fetch of analyzeSentiment
SentimentHandleAnalyze ==
    /\ srv = "Idle" /\ via = "none"
    /\ \E text \in SingleTexts :
          /\ via' = "client"
          /\ uiText' = text
          /\ IF Trim(text) = <<>>
             THEN /\ client' = [NoClient EXCEPT !.errorType = "validation",
                                   !.errorMessage = "Please enter some text to analyze"]
                  /\ UNCHANGED <<req, srv, endpoint, svc>>
             ELSE IF StrLength(text) > ServerMaxLength
             THEN /\ client' = [NoClient EXCEPT !.errorType = "validation",
                                   !.errorMessage = "Text is too long. Please limit to 5,120 characters to comply with Azure Language API limits."]
                  /\ UNCHANGED <<req, srv, endpoint, svc>>
             ELSE /\ client' = [NoClient EXCEPT !.loading = TRUE]
                  /\ svc' = [NoSvc EXCEPT !.at = "fetch"]
                  /\ req' = SingleRequest(text)
                  /\ endpoint' = "analyze-sentiment"
                  /\ srv' = "Received"
    /\ UNCHANGED <<azureConfigured, user, selectedFeatures, results, pending,
                   analysisResults, providerLog, providerCalls, response,
                   session, history, tierVars, auxVars>>

\* if (text.length < 200) of sentimentService.summarizeText, on the text as
\* the caller passed it
ClientSummaryTooShort(text) == StrLength(text) < SummarizeMinLength

\* sentimentService.summarizeText up to its fetch
CallSummarizeText ==
    /\ srv = "Idle" /\ via = "none"
    /\ \E text \in SingleTexts :
          /\ via' = "service"
          /\ uiText' = text
          /\ IF Trim(text) = <<>>
             THEN /\ svc' = [NoSvc EXCEPT !.at = "threw",
                                !.message = "Text is required for summarization"]
                  /\ UNCHANGED <<req, srv, endpoint>>
             ELSE IF ClientSummaryTooShort(text)
             THEN /\ svc' = [NoSvc EXCEPT !.at = "threw",
                                !.message = "Text must be at least 200 characters for summarization"]
                  /\ UNCHANGED <<req, srv, endpoint>>
             ELSE /\ svc' = [NoSvc EXCEPT !.at = "fetch"]
                  /\ req' = SingleRequest(text)
                  /\ endpoint' = "summarize-text"
                  /\ srv' = "Received"
    /\ UNCHANGED <<azureConfigured, user, selectedFeatures, client, results,
                   pending, analysisResults, providerLog, providerCalls,
                   response, session, history, tierVars, auxVars>>

\* a POST to a single-feature endpoint that does not come from the client
\* service
HttpPostSingle ==
    /\ srv = "Idle" /\ via = "none"
    /\ \E e \in SingleEndpoints, text \in SingleHttpTexts :
          /\ endpoint' = e
          /\ req' = [text |-> text, features |-> NoFeatures]
    /\ via' = "http"
    /\ srv' = "Received"
    /\ UNCHANGED <<azureConfigured, user, uiText, selectedFeatures, client,
                   results, pending, analysisResults, providerLog,
                   providerCalls, response, session, svc, history, tierVars, auxVars>>

\* !text || typeof text !== 'string' || text.trim().length === 0
InvalidText(t) == ~t.isString \/ t.str = <<>> \/ StrLength(Trim(t.str)) = 0

\* mutant of SentimentTooLong: a text of 5,120 characters is refused
SentimentTooLong_atCeiling(text) == StrLength(text) >= ServerMaxLength

\* if (text.length > 5120) of POST /api/analyze-sentiment
SentimentTooLong(text) == StrLength(text) > ServerMaxLength

\* if (text.length < 200) of POST /api/summarize-text
SummaryTooShort(text) == StrLength(text) < SummarizeMinLength

\* the handler makes its one provider call
DispatchSingle(f) ==
    /\ pending' = {f}
    /\ providerCalls' = [providerCalls EXCEPT ![f] = @ + 1]
    /\ srv' = "Dispatching"
    /\ UNCHANGED response

\* POST /api/analyze-sentiment from its first line to await analyzeSentiment
ServerHandleSentiment ==
    /\ srv = "Received"
    /\ endpoint = "analyze-sentiment"
    /\ IF InvalidText(req.text)
       THEN /\ response' = Reject(400, "Invalid input",
                                  "Text is required and must be a non-empty string")
            /\ srv' = "Rejected"
            /\ UNCHANGED <<pending, providerCalls>>
       ELSE IF SentimentTooLong(req.text.str)
       THEN /\ response' = Reject(400, "Text too long",
                                  "Text must be less than 5,120 characters to comply with Azure Language API limits")
            /\ srv' = "Rejected"
            /\ UNCHANGED <<pending, providerCalls>>
       ELSE IF ~azureConfigured
       THEN /\ response' = Reject(503, "Azure not configured",
                                  "Azure Language API is not properly configured")
            /\ srv' = "Unavailable"
            /\ UNCHANGED <<pending, providerCalls>>
       ELSE DispatchSingle("sentiment")
    /\ UNCHANGED <<azureConfigured, user, via, uiText, selectedFeatures, client,
                   req, results, analysisResults, providerLog, endpoint,
                   session, svc, history, tierVars, auxVars>>

\* POST /api/extract-key-phrases, /api/recognize-entities and
\* /api/detect-language from the first line to the await of the feature
\* function
ServerHandlePlain ==
    /\ srv = "Received"
    /\ endpoint \in PlainEndpoints
    /\ IF InvalidText(req.text)
       THEN /\ response' = Reject(400, "Invalid input",
                                  "Text is required and must be a non-empty string")
            /\ srv' = "Rejected"
            /\ UNCHANGED <<pending, providerCalls>>
       ELSE IF StrLength(req.text.str) > ServerMaxLength
       THEN /\ response' = Reject(400, "Text too long",
                                  "Text must be less than 5,120 characters to comply with Azure Language API limits")
            /\ srv' = "Rejected"
            /\ UNCHANGED <<pending, providerCalls>>
       ELSE IF ~azureConfigured
       THEN /\ response' = Reject(503, "Azure not configured",
                                  "Azure Language API is not properly configured")
            /\ srv' = "Unavailable"
            /\ UNCHANGED <<pending, providerCalls>>
       ELSE DispatchSingle(FeatureOf(endpoint))
    /\ UNCHANGED <<azureConfigured, user, via, uiText, selectedFeatures, client,
                   req, results, analysisResults, providerLog, endpoint,
                   session, svc, history, tierVars, auxVars>>

\* POST /api/summarize-text from its first line to await summarizeText
ServerHandleSummarize ==
    /\ srv = "Received"
    /\ endpoint = "summarize-text"
    /\ IF InvalidText(req.text)
       THEN /\ response' = Reject(400, "Invalid input",
                                  "Text is required and must be a non-empty string")
            /\ srv' = "Rejected"
            /\ UNCHANGED <<pending, providerCalls>>
       ELSE IF SummaryTooShort(req.text.str)
       THEN /\ response' = Reject(400, "Text too short",
                                  "Text must be at least 200 characters for summarization")
            /\ srv' = "Rejected"
            /\ UNCHANGED <<pending, providerCalls>>
       ELSE IF StrLength(req.text.str) > ServerMaxLength
       THEN /\ response' = Reject(400, "Text too long",
                                  "Text must be less than 5,120 characters to comply with Azure Language API limits")
            /\ srv' = "Rejected"
            /\ UNCHANGED <<pending, providerCalls>>
       ELSE IF ~azureConfigured
       THEN /\ response' = Reject(503, "Azure not configured",
                                  "Azure Language API is not properly configured")
            /\ srv' = "Unavailable"
            /\ UNCHANGED <<pending, providerCalls>>
       ELSE DispatchSingle("summary")
    /\ UNCHANGED <<azureConfigured, user, via, uiText, selectedFeatures, client,
                   req, results, analysisResults, providerLog, endpoint,
                   session, svc, history, tierVars, auxVars>>

\* the body of a single-feature answer: the feature's payload, with
\* wordCount where the handler computes it
SingleBody(f, value, text) ==
    [NoBody EXCEPT !.features = (f :> value),
                   !.wordCount = IF f \in {"sentiment", "keyPhrases"}
                                 THEN WordCount(text) ELSE 0]

\* the awaited feature function settles: res.json of what it returned, or
\* the catch block's 500 with the message of what it threw
ServerRespondSingle ==
    /\ srv = "Dispatching"
    /\ endpoint \in SingleEndpoints
    /\ \E f \in pending, outcome \in SingleProviderOutcomes :
          LET r == FeatureCall(f, outcome)
          IN  /\ pending' = {}
              /\ providerLog' = (f :> outcome) @@ providerLog
              /\ IF r.threw
                 THEN /\ response' = Reject(500, "Analysis failed", r.message)
                      /\ srv' = "Failed"
                 ELSE /\ response' = [status |-> 200, error |-> "", message |-> "",
                                      body |-> SingleBody(f, r.value, req.text.str)]
                      /\ srv' = "Completed"
    /\ UNCHANGED <<azureConfigured, user, via, uiText, selectedFeatures, client,
                   req, results, analysisResults, providerCalls, endpoint,
                   session, svc, history, tierVars, auxVars>>

\* the message of the Error analyzeSentiment throws when the response is
\* not ok
SentimentResponseError(r) ==
    IF r.status = 400
    THEN (IF Truthy(r.message) THEN r.message ELSE "Invalid input provided")
    ELSE IF r.status = 403
    THEN "API access denied. Please check your credentials."
    ELSE IF r.status = 500
    THEN "Server error. Please try again later."
    ELSE IF Truthy(r.message) THEN r.message
    ELSE "Request failed"

\* analyzeSentiment after the fetch, back in SentimentAnalyzer.handleAnalyze
ClientReceiveSentiment ==
    /\ via = "client"
    /\ endpoint = "analyze-sentiment"
    /\ svc.at = "fetch"
    /\ response.status # 0
    /\ IF response.status = 200
       THEN /\ svc' = Return(response.body)
            /\ client' = AfterCall(FALSE, "")
       ELSE /\ svc' = Throw(SentimentResponseError(response))
            /\ client' = AfterCall(TRUE, SentimentResponseError(response))
    /\ UNCHANGED <<azureConfigured, user, via, uiText, selectedFeatures, req, srv,
                   results, pending, analysisResults, providerLog, providerCalls,
                   response, endpoint, session, history, tierVars, auxVars>>

\* the message of the Error a client function throws on a blank text
RequiredMessage(e) ==
    CASE e = "extract-key-phrases" -> "Text is required for key phrase extraction"
      [] e = "recognize-entities" -> "Text is required for entity recognition"
      [] OTHER -> "Text is required for language detection"

\* extractKeyPhrases, recognizeEntities and detectLanguage of the client
\* service up to the fetch
CallPlainService ==
    /\ srv = "Idle" /\ via = "none"
    /\ \E e \in PlainEndpoints, text \in SingleTexts :
          /\ via' = "service"
          /\ uiText' = text
          /\ IF Trim(text) = <<>>
             THEN /\ svc' = [NoSvc EXCEPT !.at = "threw",
                                !.message = RequiredMessage(e)]
                  /\ UNCHANGED <<req, srv, endpoint>>
             ELSE /\ svc' = [NoSvc EXCEPT !.at = "fetch"]
                  /\ req' = SingleRequest(text)
                  /\ endpoint' = e
                  /\ srv' = "Received"
    /\ UNCHANGED <<azureConfigured, user, selectedFeatures, client, results,
                   pending, analysisResults, providerLog, providerCalls,
                   response, session, history, tierVars, auxVars>>

\* summarizeText, extractKeyPhrases, recognizeEntities and detectLanguage
\* after the fetch: errorData.message || 'Request failed ...' is thrown when
\* the response is not ok
ClientReceiveSummarize ==
    /\ via = "service"
    /\ endpoint \in {"summarize-text"} \cup PlainEndpoints
    /\ svc.at = "fetch"
    /\ response.status # 0
    /\ svc' = IF response.status = 200
              THEN Return(response.body)
              ELSE Throw(IF Truthy(response.message) THEN response.message
                         ELSE "Request failed")
    /\ UNCHANGED <<azureConfigured, user, via, uiText, selectedFeatures, client,
                   req, srv, results, pending, analysisResults, providerLog,
                   providerCalls, response, endpoint, session, history,
                   tierVars, auxVars>>

\* SentimentAnalyzer.handleReset, offered once a result or an error is shown
SentimentHandleReset ==
    /\ via = "client"
    /\ client.hasResult \/ client.errorType # ""
    /\ ResetRequest

\* the direct call of summarizeText has returned or thrown
SummarizeDone ==
    /\ via = "service"
    /\ svc.at \in {"returned", "threw"}
    /\ ResetRequest

\* the single-feature response has gone out
HttpCloseSingle ==
    /\ via = "http"
    /\ response.status # 0
    /\ ResetRequest

NextSingle ==
    \/ SentimentHandleAnalyze
    \/ CallSummarizeText
    \/ CallPlainService
    \/ HttpPostSingle
    \/ ServerHandleSentiment
    \/ ServerHandlePlain
    \/ ServerHandleSummarize
    \/ ServerRespondSingle
    \/ ClientReceiveSentiment
    \/ ClientReceiveSummarize
    \/ SentimentHandleReset
    \/ SummarizeDone
    \/ HttpCloseSingle

SpecSingle == InitSingle /\ [][NextSingle]_vars

(***************************************************************************)
(* Claims about the single-feature requests (checked under SpecSingle)     *)
(***************************************************************************)

\* C11: on the single-feature sentiment operation a non-blank text of exactly
\* 5,120 characters is accepted and dispatched to the provider, and a text of
\* 5,121 or more characters is rejected as too long before any provider call.
C11_SentimentCeiling ==
    /\ (endpoint = "analyze-sentiment" /\ Handled /\ ~InvalidText(req.text)) =>
          IF StrLength(req.text.str) >= 5121
          THEN /\ srv = "Rejected"
               /\ response.status = 400
               /\ response.error = "Text too long"
               /\ NoProviderCalls
          ELSE azureConfigured =>
                  /\ srv \in {"Dispatching", "Completed", "Failed"}
                  /\ providerCalls["sentiment"] = 1
    /\ (via = "client" /\ Trim(uiText) # <<>>) =>
          IF StrLength(uiText) >= 5121
          THEN /\ srv = "Idle"
               /\ client.errorType = "validation"
               /\ NoProviderCalls
          ELSE endpoint = "analyze-sentiment"

C11_Witness ==
    /\ endpoint = "analyze-sentiment"
    /\ via = "client"
    /\ StrLength(uiText) = 5120
    /\ StrLength(req.text.str) = 5120
    /\ srv = "Completed"
    /\ providerCalls["sentiment"] = 1
    /\ client.hasResult

ValidationMessages ==
    {"Text is required and must be a non-empty string",
     "Text must be less than 5,120 characters to comply with Azure Language API limits",
     "Text must be at least 200 characters for summarization",
     "Text is required for summarization",
     "Please enter some text to analyze",
     "Text is too long. Please limit to 5,120 characters to comply with Azure Language API limits.",
     "Invalid input provided"}
    \cup {RequiredMessage(e) : e \in PlainEndpoints}

\* the provider call of the request failed or answered with a malformed body
SingleCallFailed == endpoint \in SingleEndpoints /\ FailedCalls # {}

\* C21 as stated: on each of the five single-feature operations a provider
\* failure or malformed provider response reaches the caller as an error,
\* never as a successful result, and differs from a validation failure.
C21_ProviderFailureIsError ==
    (SingleCallFailed /\ response.status # 0) =>
        /\ response.status \notin {200, 400}
        /\ svc.at \in {"returned", "threw"} =>
              /\ svc.at = "threw"
              /\ svc.message \notin ValidationMessages

\* C21 amended: on the sentiment, key-phrase, entity and language operations
\* a provider failure or malformed provider response is answered with a 500
\* 'Analysis failed' carrying the message, which the client function throws
\* as an error that no validation failure produces; on the summarize
\* operation it is answered with a 200 whose body is the fallback summary
\* with the message in its error field, which the client function returns.
C21_FailureErrorOrFallback ==
    (SingleCallFailed /\ response.status # 0) =>
        LET f == FeatureOf(endpoint)
        IN  IF f = "summary"
            THEN /\ response.status = 200
                 /\ response.body.features[f].shape = "summary"
                 /\ response.body.features[f].error = providerLog[f].message
                 /\ svc.at \in {"returned", "threw"} =>
                       svc.at = "returned" /\ svc.result = response.body
            ELSE /\ response.status = 500
                 /\ response.error = "Analysis failed"
                 /\ response.message = providerLog[f].message
                 /\ response.body = NoBody
                 /\ svc.at \in {"returned", "threw"} =>
                       /\ svc.at = "threw"
                       /\ svc.message \notin ValidationMessages
                       /\ via = "client" =>
                             ~client.hasResult /\ client.errorType = "network"

C21_Witness ==
    /\ endpoint = "recognize-entities"
    /\ via = "service"
    /\ FailedCalls = {"entities"}
    /\ response.status = 500
    /\ svc.at = "threw"
    /\ svc.message = "Cannot read properties of undefined (reading 'documents')"

(***************************************************************************)
(* Two comprehensive requests in flight at once                            *)
(***************************************************************************)

Handlers == {1, 2}

\* the texts and feature lists of the concurrent requests
ConcTexts == {<<Ch(1)>>, <<Ch(SummaryMinLength + 1), Ws(1), Ch(1)>>}

ConcFeatureLists ==
    {<<"sentiment">>, <<"sentiment", "summary">>, <<"keyPhrases", "language">>}

InitConc ==
    /\ azureConfigured \in BOOLEAN
    /\ user = NullUser
    /\ session = FALSE
    /\ IdleRequest
    /\ qTier = "guest"
    /\ qFeature = "sentiment"
    /\ IdleTier
    /\ IdleAux

concOthers ==
    <<azureConfigured, user, via, uiText, selectedFeatures, client, req, srv,
      results, pending, analysisResults, providerLog, providerCalls, response,
      endpoint, session, svc, history, showUpgrade, logs, logCount, logWrites,
      tierVars>>

\* mutant of ResultsSlot: one results object at module level serves every
\* handler
ResultsSlot_shared(r) == 1

\* const results = { ... } is a local of the handler: each request has its
\* own
ResultsSlot(r) == r

\* a POST /api/analyze-text arrives while the other handler may be running
ConcReceive(r) ==
    /\ conc[r].srv = "Idle"
    /\ \E text \in ConcTexts, features \in ConcFeatureLists :
          conc' = [conc EXCEPT ![r].srv = "Received", ![r].text = text,
                               ![r].features = features]
    /\ UNCHANGED concOthers

\* the handler of request r from its first line to await Promise.all
ConcHandle(r) ==
    /\ conc[r].srv = "Received"
    /\ LET text == conc[r].text
           features == conc[r].features
       IN  IF text = <<>>
           THEN conc' = [conc EXCEPT ![r].srv = "Rejected",
                            ![r].response = Reject(400, "Invalid input",
                                               "Text is required and must be a string")]
           ELSE IF StrLength(text) > ServerMaxLength
           THEN conc' = [conc EXCEPT ![r].srv = "Rejected",
                            ![r].response = Reject(400, "Text too long",
                                               "Text must be less than 5,120 characters to comply with Azure Language API limits")]
           ELSE IF StrLength(Trim(text)) = 0
           THEN conc' = [conc EXCEPT ![r].srv = "Rejected",
                            ![r].response = Reject(400, "Empty text",
                                               "Please provide some text to analyze")]
           ELSE IF ~azureConfigured
           THEN conc' = [conc EXCEPT ![r].srv = "Unavailable",
                            ![r].response = Reject(503, "Azure not configured",
                                               "Azure Language API is not properly configured for comprehensive analysis")]
           ELSE conc' = [conc EXCEPT
                            ![r].srv = "Dispatching",
                            ![r].pending = Dispatched(text, features),
                            ![ResultsSlot(r)].results =
                                [text |-> text, wordCount |-> WordCount(text),
                                 characterCount |-> StrLength(text),
                                 features |-> <<>>]]
    /\ UNCHANGED concOthers

\* one provider call of request r settles
ConcSettle(r) ==
    /\ conc[r].srv = "Dispatching"
    /\ \E f \in conc[r].pending, outcome \in ProviderOutcomes :
          conc' = [conc EXCEPT
                      ![r].pending = @ \ {f},
                      ![r].providerLog = (f :> outcome) @@ @,
                      ![r].analysisResults =
                          (f :> Wrap(f, FeatureCall(f, outcome))) @@ @]
    /\ UNCHANGED concOthers

\* the handler of request r after await Promise.all: forEach and res.json
ConcAggregate(r) ==
    /\ conc[r].srv = "Dispatching"
    /\ JoinReady(conc[r].pending, conc[r].analysisResults)
    /\ LET filled == [conc[ResultsSlot(r)].results EXCEPT
                         !.features = Aggregate(conc[r].analysisResults)]
       IN  conc' = [conc EXCEPT
                       ![r].srv = "Completed",
                       ![r].response = [status |-> 200, error |-> "",
                                        message |-> "", body |-> filled],
                       ![ResultsSlot(r)].results = filled]
    /\ UNCHANGED concOthers

\* the response of request r has gone out and the handler's locals are
\* dropped
ConcClose(r) ==
    /\ conc[r].response.status # 0
    /\ conc' = [conc EXCEPT ![r] = NoHandler]
    /\ UNCHANGED concOthers

NextConc ==
    \E r \in Handlers :
        \/ ConcReceive(r)
        \/ ConcHandle(r)
        \/ ConcSettle(r)
        \/ ConcAggregate(r)
        \/ ConcClose(r)

SpecConc == InitConc /\ [][NextConc]_vars

\* C27: whatever the interleaving of two requests, the result of each holds
\* its own text, the statistics of its own text, and for each of its own
\* provider calls the outcome of that call, and nothing else.
C27_RequestIsolation ==
    \A r \in Handlers :
        conc[r].response.status = 200 =>
            LET body == conc[r].response.body
            IN  /\ body.text = conc[r].text
                /\ body.wordCount = TokenCount(conc[r].text)
                /\ body.characterCount = StrLength(conc[r].text)
                /\ DOMAIN body.features = DOMAIN conc[r].providerLog
                /\ DOMAIN body.features \subseteq Elems(conc[r].features)
                /\ \A f \in DOMAIN body.features :
                      body.features[f] =
                         FeatureSlot(Wrap(f, FeatureCall(f, conc[r].providerLog[f])))

C27_Witness ==
    /\ conc[1].srv = "Completed"
    /\ conc[2].srv = "Completed"
    /\ conc[1].text # conc[2].text
    /\ conc[1].response.body.text = conc[1].text
    /\ conc[2].response.body.text = conc[2].text
    /\ conc[1].response.body.features["sentiment"] = Payload("sentiment")
    /\ conc[2].response.body.features["sentiment"].shape = "none"

(***************************************************************************)
(* The feature selector                                                    *)
(***************************************************************************)

InitSelector ==
    /\ azureConfigured = FALSE
    /\ user = NullUser
    /\ session = FALSE
    /\ via = "none"
    /\ uiText = <<>>
    /\ selectedFeatures = InitialSelection
    /\ client = NoClient
    /\ req = NoReq
    /\ srv = "Idle"
    /\ results = NoBody
    /\ pending = {}
    /\ analysisResults = <<>>
    /\ providerLog = <<>>
    /\ providerCalls = NoCalls
    /\ response = NoResponse
    /\ endpoint = "none"
    /\ svc = NoSvc
    /\ history = <<>>
    /\ qTier = "guest"
    /\ qFeature = "sentiment"
    /\ IdleTier
    /\ IdleAux

selectorOthers ==
    <<azureConfigured, user, via, uiText, client, req, srv, results, pending,
      analysisResults, providerLog, providerCalls, response, endpoint, session,
      svc, history, conc, logs, logCount, logWrites, tierVars>>

\* selectedFeatures.filter(f => f !== featureId)
RECURSIVE Without(_, _)
Without(arr, x) ==
    IF arr = <<>> THEN <<>>
    ELSE (IF arr[1] = x THEN <<>> ELSE <<arr[1]>>) \o Without(Tail(arr), x)

\* features.filter(f => canAccessFeature(tier, f.id)).map(f => f.id)
RECURSIVE Accessible(_, _)
Accessible(tier, arr) ==
    IF arr = <<>> THEN <<>>
    ELSE (IF canAccessFeature(tier, arr[1]) THEN <<arr[1]>> ELSE <<>>)
         \o Accessible(tier, Tail(arr))

\* arr.slice(0, n)
Slice(arr, n) == SubSeq(arr, 1, IF n < Len(arr) THEN n ELSE Len(arr))

\* FeatureSelector.toggleFeature
ToggleFeature ==
    /\ \E featureId \in FeatureSet :
          IF ~canAccessFeature(TierOf(user), featureId)
          THEN /\ showUpgrade' = TRUE
               /\ UNCHANGED selectedFeatures
          ELSE IF Includes(selectedFeatures, featureId)
          THEN /\ selectedFeatures' =
                     IF user = "guest" /\ Len(selectedFeatures) = 1
                     THEN selectedFeatures
                     ELSE Without(selectedFeatures, featureId)
               /\ UNCHANGED showUpgrade
          ELSE IF Len(selectedFeatures) >= getTierLimits(TierOf(user)).maxFeatures
          THEN /\ showUpgrade' = TRUE
               /\ UNCHANGED selectedFeatures
          ELSE /\ selectedFeatures' = Append(selectedFeatures, featureId)
               /\ UNCHANGED showUpgrade
    /\ UNCHANGED selectorOthers

\* FeatureSelector.selectAll
SelectAll ==
    /\ selectedFeatures' =
          Slice(Accessible(TierOf(user), AllFeatures),
                getTierLimits(TierOf(user)).maxFeatures)
    /\ UNCHANGED showUpgrade
    /\ UNCHANGED selectorOthers

\* FeatureSelector.clearAll
ClearAll ==
    /\ selectedFeatures' = IF user = "guest" THEN <<"sentiment">> ELSE <<>>
    /\ UNCHANGED showUpgrade
    /\ UNCHANGED selectorOthers

\* TierUpgrade onClose: setShowUpgrade(false)
CloseUpgrade ==
    /\ showUpgrade
    /\ showUpgrade' = FALSE
    /\ UNCHANGED selectedFeatures
    /\ UNCHANGED selectorOthers

NextSelector ==
    \/ SetGuest
    \/ SetUser
    \/ ToggleFeature
    \/ SelectAll
    \/ ClearAll
    \/ CloseUpgrade

SpecSelector == InitSelector /\ [][NextSelector]_vars

\* C28: the selection that is passed to the analysis contains only features
\* the current tier can access and has at most maxFeatures(tier) elements.
C28_SelectionWithinTier ==
    /\ \A f \in Elems(selectedFeatures) : canAccessFeature(TierOf(user), f)
    /\ Len(selectedFeatures) <= getTierLimits(TierOf(user)).maxFeatures

\* C29: for a guest user the selection is never empty and always contains
\* sentiment.
C29_GuestKeepsSentiment ==
    user = "guest" =>
        /\ selectedFeatures # <<>>
        /\ Includes(selectedFeatures, "sentiment")

(***************************************************************************)
(* The in-memory log buffer of AdminService                                *)
(***************************************************************************)

\* if (this.logs.length > 1000) this.logs = this.logs.slice(0, 1000)
LogBufferSize == 1000

\* most logEvent calls in a run
MaxLogCalls == 1002

\* most inserts into system_logs awaited at once
MaxLogWrites == 2

InitLog ==
    /\ azureConfigured = FALSE
    /\ user = NullUser
    /\ session = FALSE
    /\ IdleRequest
    /\ qTier = "guest"
    /\ qFeature = "sentiment"
    /\ IdleTier
    /\ IdleAux

logOthers ==
    <<azureConfigured, user, via, uiText, selectedFeatures, client, req, srv,
      results, pending, analysisResults, providerLog, providerCalls, response,
      endpoint, session, svc, history, showUpgrade, conc, tierVars>>

\* this.logs.unshift(logEntry)
Unshift(buffer, entry) == <<entry>> \o buffer

\* mutant of KeepNewest: the cut keeps the oldest entries
KeepNewest_keepsOldest(buffer) ==
    IF Len(buffer) > LogBufferSize
    THEN SubSeq(buffer, 2, LogBufferSize + 1)
    ELSE buffer

\* if (this.logs.length > 1000) { this.logs = this.logs.slice(0, 1000) }
KeepNewest(buffer) ==
    IF Len(buffer) > LogBufferSize
    THEN SubSeq(buffer, 1, LogBufferSize)
    ELSE buffer

\* AdminService.logEvent up to its first await: the entry, named by the
\* number of the call in place of its random id, is put in front of the
\* buffer and the buffer is cut; the insert into system_logs is started
LogEvent ==
    /\ logCount < MaxLogCalls
    /\ logWrites < MaxLogWrites
    /\ logCount' = logCount + 1
    /\ logs' = KeepNewest(Unshift(logs, logCount'))
    /\ logWrites' = logWrites + 1
    /\ UNCHANGED logOthers

\* the insert into system_logs settles: whether it wrote the row, returned
\* an error or threw, logEvent only writes to the console afterwards
LogWriteSettle ==
    /\ logWrites > 0
    /\ \E outcome \in InsertOutcomes :
          logWrites' = logWrites - 1
    /\ UNCHANGED <<logs, logCount>>
    /\ UNCHANGED logOthers

NextLog ==
    \/ LogEvent
    \/ LogWriteSettle

SpecLog == InitLog /\ [][NextLog]_vars

\* C30: after n logEvent calls, whatever has become of their database
\* writes, the buffer holds min(n, 1000) entries, newest first, and they are
\* the most recent ones: the entry at place i is that of call n - i + 1.
C30_LogBufferNewest ==
    /\ Len(logs) <= 1000
    /\ Len(logs) = (IF logCount < 1000 THEN logCount ELSE 1000)
    /\ \A i \in 1..Len(logs) : logs[i] = logCount - i + 1

C30_Witness ==
    /\ logCount = 1001
    /\ logWrites > 0
    /\ Len(logs) = 1000
    /\ logs[1] = 1001
    /\ logs[1000] = 2

====
